---- MODULE Spec2Model ----
(***************************************************************************)
(* A model of the chronor activity-tracker bot (src/bot.py,                *)
(* src/handlers.py, src/database.py).                                      *)
(*                                                                         *)
(* Scheduling, as bot.py  sets it up: inbound updates are handled one at a *)
(* time (the Application is built without concurrent_updates), so an       *)
(* update handler runs to its end before the next update is taken; the two *)
(* jobs (ask_activity on a cron trigger, check_and_send_daily_reports_job  *)
(* hourly) run as tasks of their own on the same event loop and interleave *)
(* with the handlers, and with each other, at every await.  /asknow runs   *)
(* ask_activity inside the update handler.  A handler whose writes all     *)
(* precede its first await is one action; ask_activity and the report job  *)
(* are split at their awaits.                                              *)
(*                                                                         *)
(* Time is the UTC wall clock in whole hours since day 0, 00:00.           *)
(***************************************************************************)
EXTENDS Integers, Sequences, FiniteSets, TLC

\* ------------------------------------------------------------ bounds
MaxActivities == 2      \* rows the activities table can take
MaxInquiries == 2       \* inquiries a user is sent in one behaviour
PollTicks == 1          \* hours that pass in the conversation specification
ReportTicks == 50       \* hours that pass in the dispatch specification
MaxRunsPerHour == 2     \* dispatch job invocations within one wall-clock hour
MaxSamples == 3         \* rows of the activities table in the rendering specification

\* ------------------------------------------------ program constants
OWNER_ID == 1
DEFAULT_POLL_START_HOUR == 8
DEFAULT_POLL_END_HOUR == 22
DEFAULT_REPORT_HOUR == 8
NoId == 0               \* None as an activity id (ids start at 1)
NoDate == -1            \* NULL last_daily_report_sent_date
NoHour == -1            \* NULL poll_start_hour or poll_end_hour
NoEnd == -1             \* the blank end of the final block of a report

UserIds == {1, 2}
Texts == {"a", "#focus #Unknown"}
TaskNames == {"cron", "asknow"}
\* hours typed after /set_report_time: two valid ones and one out of range
ReportHourInputs == {DEFAULT_REPORT_HOUR, DEFAULT_REPORT_HOUR + 1, 24}
\* names typed after /set_timezone: a zone of the tz database and a name
\* ZoneInfo does not know
TimezoneInputs == {"Pacific/Niue", "Mars/Phobos"}

PollClockStart == 24 + DEFAULT_POLL_START_HOUR - 1
ReportClockStart == 24 + 17
Dates == 0 .. ((ReportClockStart + ReportTicks + 14) \div 24)

VARIABLES
    now,              \* the wall clock, UTC hours
    users,            \* table users: user_id -> settings row
    activities,       \* table activities: rows in insertion (activity_id) order
    user_poll_state,  \* context.bot_data['user_poll_state']
    user_data,        \* context.user_data of each user
    ask,              \* the ask_activity tasks: the cron job and the /asknow call
    report,           \* the check_and_send_daily_reports_job task
    handled,          \* the handle_message run of the step just taken: user, branch, store calls, reply
    inquiries,        \* history: inquiries sent to each user
    unanswered,       \* history: inquiries sent since the last recorded reply or flag clear
    answered,         \* history: handle_message consumed the user's prompt and ask_activity has not reached the user since
    delivered,        \* history: report documents delivered, per user and date (2: twice or more)
    notices,          \* history: 'no records' notices delivered, per user and date (2: twice or more)
    failed,           \* history: target date of the user's last failed report delivery
    job_runs,         \* dispatch job invocations in the current hour
    report_out        \* the report message delivered by the step just taken

dbVars == <<users, activities>>
convVars == <<user_poll_state, user_data, ask, inquiries, unanswered, answered>>
reportVars == <<report, delivered, notices, failed, job_runs>>
vars == <<now, users, activities, user_poll_state, user_data, ask, report, handled,
          inquiries, unanswered, answered, delivered, notices, failed, job_runs, report_out>>

\* ------------------------------------------------------------- time
Min(a, b) == IF a <= b THEN a ELSE b
Hour(t) == t % 24
Date(t) == t \div 24

\* ZoneInfo(tz_str): the zone's UTC offset in hours; an unknown name raises
\* ZoneInfoNotFoundError, which _get_user_local_time answers with UTC.
KnownZones == {"UTC", "Pacific/Kiritimati", "Pacific/Niue"}
ZoneOffset(tz_str) ==
    CASE tz_str = "Pacific/Kiritimati" -> 14
      [] tz_str = "Pacific/Niue" -> -11
      [] OTHER -> 0

\* A conversion that falls back to the zone of the machine, as astimezone()
\* without an argument does.
ServerZone == "Pacific/Niue"
GetUserLocalTimeServerZone(user_id, dt_utc) ==
    LET tz_str == users[user_id].timezone
    IN  IF tz_str # "" /\ tz_str \in KnownZones
        THEN dt_utc + ZoneOffset(tz_str)
        ELSE dt_utc + ZoneOffset(ServerZone)

GetUserLocalTime(user_id, dt_utc) ==
    LET tz_str == users[user_id].timezone
    IN  IF tz_str # "" /\ tz_str \in KnownZones
        THEN dt_utc + ZoneOffset(tz_str)
        ELSE dt_utc

\* ------------------------------------------------------------ store
RECURSIVE SortedSeq(_)
SortedSeq(S) ==
    IF S = {} THEN <<>>
    ELSE LET m == CHOOSE x \in S : \A y \in S : x <= y
         IN  <<m>> \o SortedSeq(S \ {m})

\* A query without the WHERE clause: every registered user.
get_all_user_ids == SortedSeq(UserIds)

\* WHERE timezone IS NOT NULL AND timezone != '' (a NULL and an empty zone
\* name are both the empty string here)
get_all_user_ids_with_tz ==
    SortedSeq({u \in UserIds : users[u].timezone # ""})

get_user_poll_window(user_id) ==
    LET s == users[user_id].poll_start_hour
        e == users[user_id].poll_end_hour
    IN  IF 0 <= s /\ s < e /\ e <= 23
        THEN <<s, e>>
        ELSE <<DEFAULT_POLL_START_HOUR, DEFAULT_POLL_END_HOUR>>

\* A getter that returns whatever hour the row holds.
get_user_report_hourUnchecked(user_id) ==
    LET h == users[user_id].report_time_hour
    IN  IF h # NoHour THEN h ELSE DEFAULT_REPORT_HOUR

get_user_report_hour(user_id) ==
    LET h == users[user_id].report_time_hour
    IN  IF 0 <= h /\ h <= 23 THEN h ELSE DEFAULT_REPORT_HOUR

\* INSERT INTO activities: the new row takes the next activity_id.
save_activity_to_db(rows, user_id, description, timestamp) ==
    Append(rows, [activity_id |-> Len(rows) + 1, user_id |-> user_id,
                  timestamp |-> timestamp, description |-> description])

\* UPDATE activities SET description WHERE activity_id = ? AND user_id = ?
\* A WHERE clause that names the activity only.
RowMatchesAnyOwner(rows, activity_id, user_id) ==
    {k \in 1..Len(rows) : rows[k].activity_id = activity_id}

RowMatches(rows, activity_id, user_id) ==
    {k \in 1..Len(rows) :
        rows[k].activity_id = activity_id /\ rows[k].user_id = user_id}

\* An UPDATE without the activity_id in its WHERE clause: every row of the
\* user takes the new description.
update_activity_descriptionOfUser(rows, activity_id, user_id, new_description) ==
    [k \in 1..Len(rows) |->
        IF rows[k].user_id = user_id
        THEN [rows[k] EXCEPT !.description = new_description]
        ELSE rows[k]]

update_activity_description(rows, activity_id, user_id, new_description) ==
    [k \in 1..Len(rows) |->
        IF k \in RowMatches(rows, activity_id, user_id)
        THEN [rows[k] EXCEPT !.description = new_description]
        ELSE rows[k]]

\* SELECT ... WHERE user_id = ? AND DATE(timestamp) = ?
get_activities_for_day(user_id, report_date) ==
    {k \in 1..Len(activities) :
        activities[k].user_id = user_id /\ Date(activities[k].timestamp) = report_date}

\* ... ORDER BY timestamp ASC: the rows of the day as a list (rows of equal
\* timestamp in activity_id order).
RECURSIVE RowsByTimestamp(_)
RowsByTimestamp(S) ==
    IF S = {} THEN <<>>
    ELSE LET k == CHOOSE x \in S : \A y \in S :
                      \/ activities[x].timestamp < activities[y].timestamp
                      \/ activities[x].timestamp = activities[y].timestamp /\ x <= y
         IN  <<activities[k]>> \o RowsByTimestamp(S \ {k})

activities_list(user_id, report_date) ==
    RowsByTimestamp(get_activities_for_day(user_id, report_date))

\* --------------------------------------------- _send_activity_report
\* The merge of the day's rows into blocks.  A block is the triple the code
\* holds when it appends a line: start_block_dt_local, end_block_dt_local
\* (none for the final block) and current_desc.
\* A block that is closed at its own start instead of the next row's time.
BlockClosedAtStart(start, end, description) ==
    [start |-> start, end |-> IF end = NoEnd THEN NoEnd ELSE start,
     description |-> description]

Block(start, end, description) ==
    [start |-> start, end |-> end, description |-> description]

\* for i in range(1, len(activities)): a change of description closes the
\* block at the local time of row i and opens the next one there; after the
\* loop the final block is appended without an end.
RECURSIVE MergeLoopClosesLast(_, _, _, _, _, _)
\* A merge loop that closes the open block when the rows run out.
MergeLoopClosesLast(user_id, acts, i, start_block_dt_local, current_desc, blocks) ==
    IF i > Len(acts)
    THEN Append(blocks, Block(start_block_dt_local, start_block_dt_local, current_desc))
    ELSE LET next_dt_local == GetUserLocalTime(user_id, acts[i].timestamp)
             next_desc == acts[i].description
         IN  IF next_desc # current_desc
             THEN MergeLoopClosesLast(user_id, acts, i + 1, next_dt_local, next_desc,
                      Append(blocks, Block(start_block_dt_local, next_dt_local, current_desc)))
             ELSE MergeLoopClosesLast(user_id, acts, i + 1, start_block_dt_local,
                                      current_desc, blocks)

RECURSIVE MergeLoop(_, _, _, _, _, _)
MergeLoop(user_id, acts, i, start_block_dt_local, current_desc, blocks) ==
    IF i > Len(acts)
    THEN Append(blocks, Block(start_block_dt_local, NoEnd, current_desc))
    ELSE LET next_dt_local == GetUserLocalTime(user_id, acts[i].timestamp)
             next_desc == acts[i].description
         IN  IF next_desc # current_desc
             THEN MergeLoop(user_id, acts, i + 1, next_dt_local, next_desc,
                            Append(blocks, Block(start_block_dt_local, next_dt_local,
                                                 current_desc)))
             ELSE MergeLoop(user_id, acts, i + 1, start_block_dt_local, current_desc,
                            blocks)

\* 'if not activities: ... return' sends the notice and builds no block.
\* A merge that joins every later run of a description into the first one.
ReportBlocksJoinsEqualRuns(user_id, acts) ==
    IF acts = <<>> THEN <<>>
    ELSE LET full == MergeLoop(user_id, acts, 2,
                               GetUserLocalTime(user_id, acts[1].timestamp),
                               acts[1].description, <<>>)
         IN  SubSeq(full, 1, Cardinality({full[k].description : k \in 1..Len(full)}))

\* A merge whose list of blocks outlives the call: the blocks of a new report
\* are added to the blocks of the report delivered before.
ReportBlocksKeepsBlocks(user_id, acts) ==
    IF acts = <<>> THEN <<>>
    ELSE MergeLoop(user_id, acts, 2, GetUserLocalTime(user_id, acts[1].timestamp),
                   acts[1].description,
                   IF report_out.kind = "document" THEN report_out.blocks ELSE <<>>)

ReportBlocks(user_id, acts) ==
    IF acts = <<>> THEN <<>>
    ELSE MergeLoop(user_id, acts, 2, GetUserLocalTime(user_id, acts[1].timestamp),
                   acts[1].description, <<>>)

\* strftime('%H:%M') keeps the time of day of a local time and drops its date.
ReportLine(block) ==
    [start |-> Hour(block.start),
     end |-> IF block.end = NoEnd THEN NoEnd ELSE Hour(block.end),
     description |-> block.description]

ReportLines(blocks) == [k \in 1..Len(blocks) |-> ReportLine(blocks[k])]

\* What a step delivered: kind "document" (the report file), "notice" (the
\* 'no records' text) or "listing" (the editable list of /report); times is
\* 2 when the step before delivered the same kind for the same user and date.
\* A report that writes the document whatever the number of rows.
SentKindAlwaysDocument(rows) == "document"

\* 'if not activities': a day without rows gets the 'no records' message and
\* the function returns; otherwise the document is built and sent.
SentKind(rows) == IF rows > 0 THEN "document" ELSE "notice"

NoReport ==
    [kind |-> "none", user |-> NoId, date |-> NoDate, blocks |-> <<>>, lines |-> <<>>,
     times |-> 0]

ReportMessage(kind, user_id, date, blocks, times) ==
    [kind |-> kind, user |-> user_id, date |-> date, blocks |-> blocks,
     lines |-> ReportLines(blocks), times |-> times]

\* -------------------------------------------------- conversation state
\* No handle_message run in the step just taken.
NotHandled == [user |-> NoId, branch |-> "none", calls |-> <<>>, reply |-> "none"]

NoUserData == [is_editing_activity |-> FALSE, editing_activity_id |-> NoId]

\* poll_states.get(user_id)
AwaitingActivityAlways(user_id) == TRUE
AwaitingActivity(user_id) == user_poll_state[user_id]

\* poll_states.pop(user_id, None)
PopPollStateKeeps(flags, user_id) == flags
PopPollState(flags, user_id) == [flags EXCEPT ![user_id] = FALSE]

\* context.user_data.get('is_editing_activity')
EditingAlways(user_id) == TRUE
EditingNever(user_id) == FALSE
Editing(user_id) == user_data[user_id].is_editing_activity

UpdateLoopFree == ask["asknow"].pc = "idle"

\* ----------------------------------------------------- ask_activity
\* sent: the users this run has sent an inquiry to (polled_count, by user)
AskIdle == [pc |-> "idle", user_ids |-> <<>>, i |-> 0, now_utc |-> 0, sent |-> {}]

\* The loop of a run has reached the user at its index: a reply the user gave
\* before no longer counts as given since the user was last reached.
AfterTakeUp(flags, run) ==
    IF run.pc = "idle" THEN flags ELSE [flags EXCEPT ![run.user_ids[run.i]] = FALSE]

\* The run goes on with the inquiries it has sent so far.
WithSent(run, sent) == IF run.pc = "idle" THEN run ELSE [run EXCEPT !.sent = sent]

\* poll_states[user_id] = True
SetPollStateSkips(flags, user_id) == flags
SetPollState(flags, user_id) == [flags EXCEPT ![user_id] = TRUE]

\* A window test that excludes the end hour.
InPollWindowBeforeEnd(user_id, now_utc) ==
    LET w == get_user_poll_window(user_id)
        h == Hour(GetUserLocalTime(user_id, now_utc))
    IN  w[1] <= h /\ h < w[2]

InPollWindow(user_id, now_utc) ==
    LET w == get_user_poll_window(user_id)
        h == Hour(GetUserLocalTime(user_id, now_utc))
    IN  w[1] <= h /\ h <= w[2]

\* The loop body for user_ids[i], run up to its first await: the sleep of a
\* skipped user, the send of the inquiry, or the sleep after 'still pending'.
AskIterate(user_ids, i, now_utc, flags) ==
    IF i > Len(user_ids) THEN AskIdle
    ELSE LET st == [pc |-> "sleep", user_ids |-> user_ids, i |-> i, now_utc |-> now_utc,
                    sent |-> {}]
         IN  IF ~InPollWindow(user_ids[i], now_utc) THEN st
             ELSE IF ~flags[user_ids[i]] THEN [st EXCEPT !.pc = "sending"]
             ELSE st

AskStart(t) ==
    /\ ask[t].pc = "idle"
    /\ get_all_user_ids_with_tz # <<>>
    /\ ask' = [ask EXCEPT ![t] = AskIterate(get_all_user_ids_with_tz, 1, now, user_poll_state)]
    /\ answered' = AfterTakeUp(answered, ask'[t])
    /\ handled' = NotHandled
    /\ report_out' = NoReport
    /\ UNCHANGED <<now, dbVars, user_poll_state, user_data, inquiries, unanswered, reportVars>>

\* The cron trigger fires (minute 0 and 30); one instance runs at a time.
ask_activity_cron_job == AskStart("cron")

\* /asknow: the owner's command awaits ask_activity inside the update
\* handler; anybody else is told the command is restricted.
ask_now_handler(u) ==
    /\ UpdateLoopFree
    /\ IF u = OWNER_ID
       THEN AskStart("asknow")
       ELSE /\ handled' = NotHandled
            /\ report_out' = NoReport
            /\ UNCHANGED <<now, dbVars, convVars, reportVars>>

AskWake(t) ==
    /\ ask[t].pc = "sleep"
    /\ ask' = [ask EXCEPT ![t] = WithSent(AskIterate(ask[t].user_ids, ask[t].i + 1,
                                                      ask[t].now_utc, user_poll_state),
                                           ask[t].sent)]
    /\ answered' = AfterTakeUp(answered, ask'[t])
    /\ handled' = NotHandled
    /\ report_out' = NoReport
    /\ UNCHANGED <<now, dbVars, user_poll_state, user_data, inquiries, unanswered, reportVars>>

\* While ask_activity is suspended in send_message, the inquiry reaches the
\* user; the call has not returned yet.
AskDelivered(t) ==
    /\ ask[t].pc = "sending"
    /\ ask' = [ask EXCEPT ![t].pc = "delivered"]
    /\ handled' = NotHandled
    /\ report_out' = NoReport
    /\ UNCHANGED <<now, dbVars, user_poll_state, user_data, inquiries, unanswered, answered, reportVars>>

\* send_message returned: the flag is set after the await.
AskSendOk(t) ==
    /\ ask[t].pc \in {"sending", "delivered"}
    /\ LET u == ask[t].user_ids[ask[t].i]
       IN  /\ inquiries[u] < MaxInquiries
           /\ user_poll_state' = SetPollState(user_poll_state, u)
           /\ inquiries' = [inquiries EXCEPT ![u] = @ + 1]
           /\ unanswered' = [unanswered EXCEPT ![u] = @ + 1]
           /\ ask' = [ask EXCEPT ![t].pc = "sleep", ![t].sent = @ \cup {u}]
    /\ handled' = NotHandled
    /\ report_out' = NoReport
    /\ UNCHANGED <<now, dbVars, user_data, answered, reportVars>>

\* The except clauses sit inside the for loop: after them the loop takes the
\* next user (without the 0.1 s sleep).
AskAfterFailureAborts(user_ids, i, now_utc, flags) == AskIdle
AskAfterFailure(user_ids, i, now_utc, flags) == AskIterate(user_ids, i + 1, now_utc, flags)

\* send_message raised (Forbidden or any other exception): the flag is popped
\* and the loop goes on with the next user.
AskSendFail(t) ==
    /\ ask[t].pc \in {"sending", "delivered"}
    /\ LET u == ask[t].user_ids[ask[t].i]
       IN  /\ user_poll_state' = PopPollState(user_poll_state, u)
           /\ unanswered' = [unanswered EXCEPT ![u] = 0]
    /\ ask' = [ask EXCEPT ![t] = WithSent(AskAfterFailure(ask[t].user_ids, ask[t].i,
                                                           ask[t].now_utc, user_poll_state'),
                                           ask[t].sent)]
    /\ answered' = AfterTakeUp(answered, ask'[t])
    /\ handled' = NotHandled
    /\ report_out' = NoReport
    /\ UNCHANGED <<now, dbVars, user_data, inquiries, reportVars>>

\* --------------------------------------------------- handle_message
UpdateCall(activity_id, user_id, text, ok) ==
    [fn |-> "update_activity_description", activity_id |-> activity_id,
     user_id |-> user_id, text |-> text, ok |-> ok]

SaveCall(user_id, text, ok) ==
    [fn |-> "save_activity_to_db", activity_id |-> NoId,
     user_id |-> user_id, text |-> text, ok |-> ok]

\* The reply of the edit branch: 'Activity updated!' or 'Failed to update
\* activity. Not found?'
EditReply(was_updated) == IF was_updated THEN "updated" ELSE "update_failed"

\* A reply that confirms whatever the store returned.
ActivityReplyAlwaysLogged(saved) == "logged"

\* The reply of the activity branch: 'Got it! Logged: ...' when
\* save_activity_to_db returned an id, 'Sorry, error saving activity.' when it
\* returned None.
ActivityReply(saved) == IF saved THEN "logged" ELSE "save_error"

\* The schema has the tables users and activities only: no user has a
\* registered tag, save_activity_to_db writes the activities row and no tag
\* link, and the confirmation quotes the text and lists no tag.
RegisteredTags(user_id) == {}
TagLinksWritten(user_id, text) == {}
IgnoredTagsReported(user_id, text) == {}

\* 1. the user is editing an activity
HandleMessageEdit(u, text) ==
    /\ UpdateLoopFree
    /\ Editing(u)
    /\ LET activity_id == user_data[u].editing_activity_id
       IN  IF activity_id = NoId
           THEN /\ handled' = [user |-> u, branch |-> "edit", calls |-> <<>>,
                                reply |-> "lost_track"]
                /\ UNCHANGED activities
           ELSE \E db_ok \in BOOLEAN :
                  LET was_updated == db_ok /\ RowMatches(activities, activity_id, u) # {}
                  IN  /\ activities' = IF was_updated
                                       THEN update_activity_description(activities, activity_id, u, text)
                                       ELSE activities
                      /\ handled' = [user |-> u, branch |-> "edit",
                                     calls |-> <<UpdateCall(activity_id, u, text, was_updated)>>,
                                     reply |-> EditReply(was_updated)]
    /\ user_data' = [user_data EXCEPT ![u] = NoUserData]
    /\ report_out' = NoReport
    /\ UNCHANGED <<now, users, user_poll_state, ask, inquiries, unanswered, answered, reportVars>>

\* 2. the user has an outstanding prompt
HandleMessageActivity(u, text) ==
    /\ UpdateLoopFree
    /\ ~Editing(u)
    /\ AwaitingActivity(u)
    /\ user_poll_state' = PopPollState(user_poll_state, u)
    /\ \E db_ok \in BOOLEAN :
          LET saved == db_ok /\ Len(activities) < MaxActivities
          IN  /\ activities' = IF saved
                               THEN save_activity_to_db(activities, u, text, now)
                               ELSE activities
              /\ handled' = [user |-> u, branch |-> "activity",
                             calls |-> <<SaveCall(u, text, saved)>>,
                             reply |-> ActivityReply(saved)]
    /\ unanswered' = [unanswered EXCEPT ![u] = 0]
    /\ answered' = [answered EXCEPT ![u] = TRUE]
    /\ report_out' = NoReport
    /\ UNCHANGED <<now, users, user_data, ask, inquiries, reportVars>>

\* 3. any other message
HandleMessageUnexpected(u, text) ==
    /\ UpdateLoopFree
    /\ ~Editing(u)
    /\ ~AwaitingActivity(u)
    /\ handled' = [user |-> u, branch |-> "unexpected", calls |-> <<>>, reply |-> "none"]
    /\ report_out' = NoReport
    /\ UNCHANGED <<now, dbVars, user_poll_state, user_data, ask, inquiries, unanswered, answered, reportVars>>

handle_message(u, text) ==
    \/ HandleMessageEdit(u, text)
    \/ HandleMessageActivity(u, text)
    \/ HandleMessageUnexpected(u, text)

\* ------------------------------------------------------------ start
\* add_user_if_not_exists is INSERT OR IGNORE: a registered user's row stays.
\* bot_data['user_id'] is written here and read nowhere in handlers.py.
start(u) ==
    /\ UpdateLoopFree
    /\ user_data' = [user_data EXCEPT ![u] = NoUserData]
    /\ handled' = NotHandled
    /\ report_out' = NoReport
    /\ UNCHANGED <<now, dbVars, user_poll_state, ask, inquiries, unanswered, answered, reportVars>>

\* ------------------------------------- button 'edit_activity:<id>'
\* The flags are set before edit_message_text is awaited; if that raises,
\* they are popped again.
\* A handler that keeps the target of a pending edit.
button_edit_activityKeepsFirst(u, activity_id) ==
    /\ UpdateLoopFree
    /\ user_data' = [user_data EXCEPT ![u] =
                        IF user_data[u].is_editing_activity
                        THEN user_data[u]
                        ELSE [is_editing_activity |-> TRUE,
                              editing_activity_id |-> activity_id]]
    /\ handled' = NotHandled
    /\ report_out' = NoReport
    /\ UNCHANGED <<now, dbVars, user_poll_state, ask, inquiries, unanswered, answered, reportVars>>

button_edit_activity(u, activity_id) ==
    /\ UpdateLoopFree
    /\ \E edited \in BOOLEAN :
          user_data' = [user_data EXCEPT ![u] =
                          IF edited
                          THEN [is_editing_activity |-> TRUE, editing_activity_id |-> activity_id]
                          ELSE NoUserData]
    /\ handled' = NotHandled
    /\ report_out' = NoReport
    /\ UNCHANGED <<now, dbVars, user_poll_state, ask, inquiries, unanswered, answered, reportVars>>

\* ---------------------------------- button 'edit_activity:cancel'
\* The text of the list message is replaced by 'OK, activity list closed.'
\* (an exception of edit_message_text is ignored); user_data is not touched.
\* The buttons of every list the chat holds stay pressable, so the callback
\* can arrive in any state of the user.
ListClosed(user_id) ==
    [kind |-> "closed", user |-> user_id, date |-> NoDate, blocks |-> <<>>, lines |-> <<>>,
     times |-> 1]

button_edit_cancel(u) ==
    /\ UpdateLoopFree
    /\ \E edited \in BOOLEAN :
          report_out' = IF edited THEN ListClosed(u) ELSE NoReport
    /\ handled' = NotHandled
    /\ UNCHANGED <<now, dbVars, convVars, reportVars>>

\* --------------------------------- check_and_send_daily_reports_job
ReportIdle ==
    [pc |-> "idle", user_ids |-> <<>>, i |-> 0, now_utc |-> 0, local_time |-> 0,
     date |-> NoDate, rows |-> 0, blocks |-> <<>>]

\* report_date_local = user_local_time.date() - timedelta(days=1)
TargetDateToday(local_time) == Date(local_time)
TargetDate(local_time) == Date(local_time) - 1

\* A job that tests the watermark only, at every hour.
ReportDueAnyHour(user_id, now_utc) ==
    users[user_id].last_daily_report_sent_date
        # TargetDate(GetUserLocalTime(user_id, now_utc))

\* The job's two tests for one user: the local hour is the report hour, and
\* the watermark is not the target date.
ReportDue(user_id, now_utc) ==
    LET local_time == GetUserLocalTime(user_id, now_utc)
    IN  /\ Hour(local_time) = get_user_report_hour(user_id)
        /\ users[user_id].last_daily_report_sent_date # TargetDate(local_time)

\* The loop runs without an await over the users that are not due: the
\* index of the first due user from i on, Len(user_ids) + 1 if there is none.
RECURSIVE ReportScan(_, _, _)
ReportScan(user_ids, i, now_utc) ==
    IF i > Len(user_ids) THEN Len(user_ids) + 1
    ELSE IF ReportDue(user_ids[i], now_utc) THEN i
    ELSE ReportScan(user_ids, i + 1, now_utc)

\* Up to the first await: _send_activity_report has read the day's rows and
\* awaits the send of the document, or of the 'no records' notice.
ReportIterate(user_ids, i, now_utc) ==
    LET j == ReportScan(user_ids, i, now_utc)
    IN  IF j > Len(user_ids) THEN ReportIdle
        ELSE LET user_local_time == GetUserLocalTime(user_ids[j], now_utc)
                 date == TargetDate(user_local_time)
             IN  [pc |-> "sending", user_ids |-> user_ids, i |-> j, now_utc |-> now_utc,
                  local_time |-> user_local_time, date |-> date,
                  rows |-> Cardinality(get_activities_for_day(user_ids[j], date)),
                  blocks |-> ReportBlocks(user_ids[j], activities_list(user_ids[j], date))]

\* A job that advances the watermark only for a day that had rows.
update_last_report_sent_dateOnlyWithRows(user_id, date) ==
    IF get_activities_for_day(user_id, date) = {}
    THEN users
    ELSE [users EXCEPT ![user_id].last_daily_report_sent_date = date]

update_last_report_sent_date(user_id, date) ==
    [users EXCEPT ![user_id].last_daily_report_sent_date = date]

ReportStart ==
    /\ report.pc = "idle"
    /\ job_runs < MaxRunsPerHour
    /\ get_all_user_ids_with_tz # <<>>
    /\ report' = ReportIterate(get_all_user_ids_with_tz, 1, now)
    /\ job_runs' = job_runs + 1
    /\ handled' = NotHandled
    /\ report_out' = NoReport
    /\ UNCHANGED <<now, dbVars, convVars, delivered, notices, failed>>

\* The send returned; the watermark is written and the job sleeps 0.3 s.
ReportSendOk ==
    /\ report.pc = "sending"
    /\ LET u == report.user_ids[report.i]
       IN  /\ IF report.rows > 0
              THEN /\ delivered' = [delivered EXCEPT ![u][report.date] = Min(@ + 1, 2)]
                   /\ UNCHANGED notices
              ELSE /\ notices' = [notices EXCEPT ![u][report.date] = Min(@ + 1, 2)]
                   /\ UNCHANGED delivered
           /\ users' = update_last_report_sent_date(u, report.date)
    /\ report' = [report EXCEPT !.pc = "sleep"]
    /\ handled' = NotHandled
    /\ report_out' = ReportMessage(SentKind(report.rows),
                                   report.user_ids[report.i], report.date, report.blocks, 1)
    /\ UNCHANGED <<now, activities, convVars, failed, job_runs>>

\* The send raised; _send_activity_report logs the error and returns, and
\* the job goes on as after a delivery.
ReportSendFail ==
    /\ report.pc = "sending"
    /\ LET u == report.user_ids[report.i]
       IN  /\ failed' = [failed EXCEPT ![u] = report.date]
           /\ users' = update_last_report_sent_date(u, report.date)
    /\ report' = [report EXCEPT !.pc = "sleep"]
    /\ handled' = NotHandled
    /\ report_out' = NoReport
    /\ UNCHANGED <<now, activities, convVars, delivered, notices, job_runs>>

\* The try/except blocks sit inside the for loop: whatever happened to the
\* user at index i, the loop takes the users after i.
ReportAfterUserAborts(user_ids, i, now_utc) == ReportIdle
ReportAfterUser(user_ids, i, now_utc) == ReportIterate(user_ids, i + 1, now_utc)

ReportWake ==
    /\ report.pc = "sleep"
    /\ report' = ReportAfterUser(report.user_ids, report.i, report.now_utc)
    /\ handled' = NotHandled
    /\ report_out' = NoReport
    /\ UNCHANGED <<now, dbVars, convVars, delivered, notices, failed, job_runs>>

\* ------------------------------------------------ /set_report_time
update_user_report_hour(user_id, hour) ==
    [users EXCEPT ![user_id].report_time_hour = hour]

\* A check of the report hour that lets the hour after 23 through.
ValidReportHourUpTo24(report_hour) == 0 <= report_hour /\ report_hour <= 24

\* if not (0 <= report_hour <= 23): raise ValueError
ValidReportHour(report_hour) == 0 <= report_hour /\ report_hour <= 23

\* /set_report_time <hour>: the hour is stored if it is within 0..23;
\* otherwise the user gets the 'Invalid input' text and nothing is stored.
set_report_time_handler(u, report_hour) ==
    /\ UpdateLoopFree
    /\ users' = IF ValidReportHour(report_hour)
                THEN update_user_report_hour(u, report_hour)
                ELSE users
    /\ handled' = NotHandled
    /\ report_out' = NoReport
    /\ UNCHANGED <<now, activities, convVars, reportVars>>

\* --------------------------------------------------- /set_timezone
update_user_timezone(user_id, timezone_str) ==
    [users EXCEPT ![user_id].timezone = timezone_str]

\* ZoneInfo(timezone_name) validates the name before the store is written.
set_timezone_handler(u, timezone_name) ==
    /\ UpdateLoopFree
    /\ users' = IF timezone_name \in KnownZones
                THEN update_user_timezone(u, timezone_name)
                ELSE users
    /\ handled' = NotHandled
    /\ report_out' = NoReport
    /\ UNCHANGED <<now, activities, convVars, reportVars>>

\* ------------------------------------------------------------ clock
Tick(limit) ==
    /\ now < limit
    /\ now' = now + 1
    /\ job_runs' = 0
    /\ handled' = NotHandled
    /\ report_out' = NoReport
    /\ UNCHANGED <<dbVars, user_poll_state, user_data, ask, inquiries, unanswered, answered, report, delivered, notices, failed>>

TickPoll == Tick(PollClockStart + PollTicks)
TickReport == Tick(ReportClockStart + ReportTicks)

\* --------------------------------------------------- specification
UsersTable ==
    [u \in UserIds |->
        [timezone |-> IF u = OWNER_ID THEN "UTC" ELSE "Pacific/Kiritimati",
         last_daily_report_sent_date |-> NoDate,
         poll_start_hour |-> DEFAULT_POLL_START_HOUR,
         poll_end_hour |-> DEFAULT_POLL_END_HOUR,
         report_time_hour |-> DEFAULT_REPORT_HOUR]]

InitMemory ==
    /\ user_poll_state = [u \in UserIds |-> FALSE]
    /\ user_data = [u \in UserIds |-> NoUserData]
    /\ ask = [t \in TaskNames |-> AskIdle]
    /\ report = ReportIdle
    /\ handled = NotHandled
    /\ inquiries = [u \in UserIds |-> 0]
    /\ unanswered = [u \in UserIds |-> 0]
    /\ answered = [u \in UserIds |-> FALSE]
    /\ delivered = [u \in UserIds |-> [d \in Dates |-> 0]]
    /\ notices = [u \in UserIds |-> [d \in Dates |-> 0]]
    /\ failed = [u \in UserIds |-> NoDate]
    /\ report_out = NoReport
    /\ job_runs = 0

Init ==
    /\ now = PollClockStart
    /\ users = UsersTable
    /\ activities = <<>>
    /\ InitMemory

Next ==
    \/ TickPoll
    \/ ask_activity_cron_job
    \/ \E u \in UserIds : ask_now_handler(u)
    \/ \E t \in TaskNames : AskWake(t)
    \/ \E t \in TaskNames : AskSendOk(t)
    \/ \E t \in TaskNames : AskSendFail(t)
    \/ \E u \in UserIds, text \in Texts : handle_message(u, text)
    \/ \E u \in UserIds : start(u)
    \/ \E u \in UserIds, id \in 1..MaxActivities : button_edit_activity(u, id)

Spec == Init /\ [][Next]_vars

\* The dispatch specification: the store holds activities of three days; user 2
\* has rows on days 0, 1 and 2, user 1 on day 1 only.
StoredActivities ==
    << [activity_id |-> 1, user_id |-> 2, timestamp |-> 10, description |-> "a"],
       [activity_id |-> 2, user_id |-> 2, timestamp |-> 24 + 10, description |-> "b"],
       [activity_id |-> 3, user_id |-> 1, timestamp |-> 24 + 11, description |-> "a"],
       [activity_id |-> 4, user_id |-> 2, timestamp |-> 2 * 24 + 10, description |-> "b"] >>

InitReport ==
    /\ now = ReportClockStart
    /\ users = UsersTable
    /\ activities = StoredActivities
    /\ InitMemory

NextReport ==
    \/ TickReport
    \/ ReportStart
    \/ ReportSendOk
    \/ ReportSendFail
    \/ ReportWake
    \/ \E u \in UserIds, h \in ReportHourInputs : set_report_time_handler(u, h)
    \/ \E u \in UserIds, tz \in TimezoneInputs : set_timezone_handler(u, tz)

SpecReport == InitReport /\ [][NextReport]_vars

\* ------------------------------------------------ /set_poll_window
\* the two arguments of /set_poll_window: a window, a reversed window, an
\* hour beyond 23
PollWindowInputs == {<<9, 18>>, <<18, 9>>, <<7, 24>>}

update_user_poll_window(user_id, start_hour, end_hour) ==
    [users EXCEPT ![user_id].poll_start_hour = start_hour,
                  ![user_id].poll_end_hour = end_hour]

\* /set_poll_window <start> <end>: the hours are stored if both are within
\* 0..23 and start < end; otherwise the user gets an error text and nothing
\* is stored.
\* A check of the poll window that does not compare the two hours.
ValidPollWindowAnyOrder(start_hour, end_hour) ==
    /\ 0 <= start_hour /\ start_hour <= 23
    /\ 0 <= end_hour /\ end_hour <= 23

\* if not (0 <= start_hour <= 23 and 0 <= end_hour <= 23): raise ValueError
\* if start_hour >= end_hour: raise ValueError
ValidPollWindow(start_hour, end_hour) ==
    /\ 0 <= start_hour /\ start_hour <= 23
    /\ 0 <= end_hour /\ end_hour <= 23
    /\ start_hour < end_hour

set_poll_window_handler(u, start_hour, end_hour) ==
    /\ UpdateLoopFree
    /\ users' = IF ValidPollWindow(start_hour, end_hour)
                THEN update_user_poll_window(u, start_hour, end_hour)
                ELSE users
    /\ handled' = NotHandled
    /\ report_out' = NoReport
    /\ UNCHANGED <<now, activities, convVars, reportVars>>

\* The polling specification: the bot starts on a users table whose poll
\* hours are the column defaults, NULL or a pair that is not a window, at any
\* hour of a day; the poll runs from the timer and from /asknow, and users
\* set their window.
StoredPollWindows == {<<DEFAULT_POLL_START_HOUR, DEFAULT_POLL_END_HOUR>>,
                      <<NoHour, NoHour>>, <<20, 5>>}
PollClocks == 24 .. 47

InitPoll ==
    /\ now \in PollClocks
    /\ \E w \in [UserIds -> StoredPollWindows] :
          users = [u \in UserIds |->
                      [UsersTable[u] EXCEPT !.poll_start_hour = w[u][1],
                                            !.poll_end_hour = w[u][2]]]
    /\ activities = <<>>
    /\ InitMemory

NextPoll ==
    \/ ask_activity_cron_job
    \/ \E u \in UserIds : ask_now_handler(u)
    \/ \E t \in TaskNames : AskWake(t)
    \/ \E t \in TaskNames : AskSendOk(t)
    \/ \E t \in TaskNames : AskSendFail(t)
    \/ \E u \in UserIds, w \in PollWindowInputs : set_poll_window_handler(u, w[1], w[2])

SpecPoll == InitPoll /\ [][NextPoll]_vars

\* The zones specification: each user's stored zone is missing, a name the
\* tz database does not know, or a zone; the poll timer and the dispatch job
\* run at an hour at which a user on UTC time or a user in the zone is due,
\* and users set their zone.
StoredZones == {"", "Mars/Phobos", "Pacific/Kiritimati"}
ZoneClocks == {24 + DEFAULT_REPORT_HOUR, 24 + DEFAULT_REPORT_HOUR + 10}

InitZones ==
    /\ now \in ZoneClocks
    /\ \E z \in [UserIds -> StoredZones] :
          users = [u \in UserIds |-> [UsersTable[u] EXCEPT !.timezone = z[u]]]
    /\ activities = StoredActivities
    /\ InitMemory

NextZones ==
    \/ ask_activity_cron_job
    \/ \E t \in TaskNames : AskWake(t)
    \/ \E t \in TaskNames : AskSendOk(t)
    \/ \E t \in TaskNames : AskSendFail(t)
    \/ ReportStart
    \/ ReportSendOk
    \/ ReportSendFail
    \/ ReportWake
    \/ \E u \in UserIds, tz \in TimezoneInputs : set_timezone_handler(u, tz)

SpecZones == InitZones /\ [][NextZones]_vars

\* The settings specification: the users send the three settings commands,
\* with valid and invalid arguments, while the poll timer runs within one
\* hour.
NextSettings ==
    \/ \E u \in UserIds, w \in PollWindowInputs : set_poll_window_handler(u, w[1], w[2])
    \/ \E u \in UserIds, h \in ReportHourInputs : set_report_time_handler(u, h)
    \/ \E u \in UserIds, tz \in TimezoneInputs : set_timezone_handler(u, tz)
    \/ ask_activity_cron_job
    \/ \E t \in TaskNames : AskWake(t)
    \/ \E t \in TaskNames : AskSendOk(t)
    \/ \E t \in TaskNames : AskSendFail(t)

SpecSettings == Init /\ [][NextSettings]_vars

\* The in-flight specification: the poll timer runs within one hour of the
\* poll window, the delivery of an inquiry to the user and the return of
\* send_message are two steps, and the users write messages and press edit
\* buttons in between.
InitInFlight ==
    /\ now = 24 + DEFAULT_POLL_START_HOUR
    /\ users = UsersTable
    /\ activities = <<>>
    /\ InitMemory

NextInFlight ==
    \/ ask_activity_cron_job
    \/ \E t \in TaskNames : AskDelivered(t)
    \/ \E t \in TaskNames : AskWake(t)
    \/ \E t \in TaskNames : AskSendOk(t)
    \/ \E t \in TaskNames : AskSendFail(t)
    \/ \E u \in UserIds, text \in Texts : handle_message(u, text)
    \/ \E u \in UserIds, id \in 1..MaxActivities : button_edit_activity(u, id)

SpecInFlight == InitInFlight /\ [][NextInFlight]_vars

\* The editing specification: the store holds one row of user 2; within one
\* hour of the poll window the poll timer runs, and the users press the edit
\* buttons and Cancel of the lists in their chats and write messages.
EditIds == 1..MaxActivities

InitEdit ==
    /\ now = 24 + DEFAULT_POLL_START_HOUR
    /\ users = UsersTable
    /\ activities = <<StoredActivities[1]>>
    /\ InitMemory

NextEdit ==
    \/ ask_activity_cron_job
    \/ \E t \in TaskNames : AskWake(t)
    \/ \E t \in TaskNames : AskSendOk(t)
    \/ \E t \in TaskNames : AskSendFail(t)
    \/ \E u \in UserIds, text \in Texts : handle_message(u, text)
    \/ \E u \in UserIds, id \in EditIds : button_edit_activity(u, id)
    \/ \E u \in UserIds : button_edit_cancel(u)

SpecEdit == InitEdit /\ [][NextEdit]_vars

\* The stored-settings specification: the bot starts on a users table whose
\* poll hours and report hour are the values of a registration, NULL or out
\* of bounds; at an hour at which user 1 is due by the default report hour,
\* the users register again and send /set_poll_window and /set_report_time
\* while the poll timer and the dispatch job run.
StoredReportHours == {DEFAULT_REPORT_HOUR, NoHour, 24}

InitStored ==
    /\ now = 24 + DEFAULT_REPORT_HOUR
    /\ \E w \in [UserIds -> StoredPollWindows], h \in [UserIds -> StoredReportHours] :
          users = [u \in UserIds |->
                      [UsersTable[u] EXCEPT !.poll_start_hour = w[u][1],
                                            !.poll_end_hour = w[u][2],
                                            !.report_time_hour = h[u]]]
    /\ activities = StoredActivities
    /\ InitMemory

NextStored ==
    \/ \E u \in UserIds : start(u)
    \/ \E u \in UserIds, w \in PollWindowInputs : set_poll_window_handler(u, w[1], w[2])
    \/ \E u \in UserIds, h \in ReportHourInputs : set_report_time_handler(u, h)
    \/ ask_activity_cron_job
    \/ \E t \in TaskNames : AskWake(t)
    \/ \E t \in TaskNames : AskSendOk(t)
    \/ \E t \in TaskNames : AskSendFail(t)
    \/ ReportStart
    \/ ReportSendOk
    \/ ReportSendFail
    \/ ReportWake

SpecStored == InitStored /\ [][NextStored]_vars

\* ---------------------------------------------- reports on demand
\* dates a user asks a report for: /report <date>, the Today and Yesterday
\* buttons, the Download button
DateInputs == {1, 2}

\* The step before delivered the same kind of message for the same user and
\* date.
Repeated(kind, user_id, date) ==
    report_out.kind = kind /\ report_out.user = user_id /\ report_out.date = date

\* A Download that records the date as reported.
download_reportMarksSent(u, report_date) ==
    /\ UpdateLoopFree
    /\ report_out' = ReportMessage(SentKind(Len(activities_list(u, report_date))), u,
                                   report_date,
                                   ReportBlocks(u, activities_list(u, report_date)), 1)
    /\ users' = [users EXCEPT ![u].last_daily_report_sent_date = report_date]
    /\ handled' = NotHandled
    /\ UNCHANGED <<now, activities, convVars, reportVars>>

\* Button 'download_report:<date>': _send_activity_report for the user's own
\* chat.  It reads the rows, builds the text and awaits the send; an
\* exception of the send is logged and nothing reaches the user.
download_report(u, report_date) ==
    /\ UpdateLoopFree
    /\ \E sent \in BOOLEAN :
          LET acts == activities_list(u, report_date)
              kind == SentKind(Len(acts))
          IN  report_out' =
                  IF sent
                  THEN ReportMessage(kind, u, report_date, ReportBlocks(u, acts),
                                     IF Repeated(kind, u, report_date) THEN 2 ELSE 1)
                  ELSE NoReport
    /\ handled' = NotHandled
    /\ UNCHANGED <<now, dbVars, convVars, reportVars>>

\* One line of the editable list per row: its local time of day and its
\* description.
ListingLines(user_id, acts) ==
    [k \in 1..Len(acts) |->
        [start |-> Hour(GetUserLocalTime(user_id, acts[k].timestamp)),
         end |-> NoEnd,
         description |-> acts[k].description]]

\* /report <date> and the buttons 'report_select:activity:<date>':
\* _show_editable_activity_report lists the rows of the day with an edit
\* button each, or says that there are no records.
show_editable_activity_report(u, report_date) ==
    /\ UpdateLoopFree
    /\ \E sent \in BOOLEAN :
          LET acts == activities_list(u, report_date)
              kind == IF acts = <<>> THEN "notice" ELSE "listing"
          IN  report_out' =
                  IF sent
                  THEN [kind |-> kind, user |-> u, date |-> report_date,
                        blocks |-> <<>>, lines |-> ListingLines(u, acts),
                        times |-> IF Repeated(kind, u, report_date) THEN 2 ELSE 1]
                  ELSE NoReport
    /\ handled' = NotHandled
    /\ UNCHANGED <<now, dbVars, convVars, reportVars>>

\* The rendering specification: the store holds up to MaxSamples rows of
\* user 2, saved at some of four hours of days 1 and 2 with any descriptions;
\* user 2 lives in one of two zones; the dispatch job runs within one hour at
\* which user 2 is due in one of the zones, and both users ask for reports.
SampleUser == 2
SampleTimes == {24 + 9, 24 + 11, 2 * 24 + 1, 2 * 24 + 2}
SampleZones == {"Pacific/Kiritimati", "Pacific/Niue"}
RenderClocks == {2 * 24 + 18, 2 * 24 + 19}

SampleRows ==
    UNION { { [k \in 1..n |-> [activity_id |-> k, user_id |-> SampleUser,
                               timestamp |-> ts[k], description |-> d[k]]] :
                ts \in {f \in [1..n -> SampleTimes] :
                           \A k \in 1..(n - 1) : f[k] <= f[k + 1]},
                d \in [1..n -> Texts] } :
            n \in 0..MaxSamples }

InitRender ==
    /\ now \in RenderClocks
    /\ \E tz \in SampleZones : users = [UsersTable EXCEPT ![SampleUser].timezone = tz]
    /\ activities \in SampleRows
    /\ InitMemory

NextRender ==
    \/ ReportStart
    \/ ReportSendOk
    \/ ReportSendFail
    \/ ReportWake
    \/ \E u \in UserIds, d \in DateInputs : download_report(u, d)
    \/ \E u \in UserIds, d \in DateInputs : show_editable_activity_report(u, d)

SpecRender == InitRender /\ [][NextRender]_vars

\* The on-demand specification: at the hour at which user 2 is due for the
\* report of day 2 and both users are inside their poll windows, the dispatch
\* job and the poll timer run, the users press edit buttons, and both users
\* ask for reports of the job's target date and of the day before.
InitOnDemand ==
    /\ now = 2 * 24 + 18
    /\ users = UsersTable
    /\ activities = StoredActivities
    /\ InitMemory

NextOnDemand ==
    \/ ReportStart
    \/ ReportSendOk
    \/ ReportSendFail
    \/ ReportWake
    \/ ask_activity_cron_job
    \/ \E t \in TaskNames : AskWake(t)
    \/ \E t \in TaskNames : AskSendOk(t)
    \/ \E t \in TaskNames : AskSendFail(t)
    \/ \E u \in UserIds, id \in EditIds : button_edit_activity(u, id)
    \/ \E u \in UserIds, d \in DateInputs : download_report(u, d)
    \/ \E u \in UserIds, d \in DateInputs : show_editable_activity_report(u, d)

SpecOnDemand == InitOnDemand /\ [][NextOnDemand]_vars

\* =========================================================== claims
CurrentAskUser(t) == ask[t].user_ids[ask[t].i]
CurrentReportUser == report.user_ids[report.i]
SavedCount(u) == Cardinality({k \in 1..Len(activities) : activities[k].user_id = u})
Idle(u) == ~user_poll_state[u] /\ ~Editing(u)
Watermark(u) == users[u].last_daily_report_sent_date

\* C1: once an inquiry has been sent to a user, no second inquiry is sent to
\* that user before a reply of the user is recorded or the user's flag is
\* explicitly cleared: at most one inquiry is ever unanswered.
C1_NoSecondInquiryWhileOutstanding ==
    \A u \in UserIds : unanswered[u] <= 1

\* C2: the flag is set before ask_activity's first yield, so the cron task
\* and the /asknow task are never both suspended in the send of an inquiry
\* to the same user.
C2_NoTwoTasksSendingToOneUser ==
    ~ /\ ask["cron"].pc = "sending"
      /\ ask["asknow"].pc = "sending"
      /\ CurrentAskUser("cron") = CurrentAskUser("asknow")

\* C3: the outstanding-prompt flag and is_editing_activity are never both
\* set for one user.
C3_AwaitingActivityExcludesEditing ==
    \A u \in UserIds : ~(user_poll_state[u] /\ Editing(u))

\* C4: a row is added to the activities table only by handle_message taking
\* a message of a user whose prompt is outstanding (an inquiry sent to that
\* user and not yet consumed); a message of an idle user adds no row.
C4_SavedOnlyOnOutstandingPrompt ==
    [][ /\ Len(activities') # Len(activities) =>
            LET row == activities'[Len(activities')]
            IN  /\ Len(activities') = Len(activities) + 1
                /\ handled'.branch = "activity"
                /\ handled'.user = row.user_id
                /\ user_poll_state[row.user_id]
                /\ unanswered[row.user_id] >= 1
        /\ \A u \in UserIds :
              (Idle(u) /\ handled'.user = u) => activities' = activities
      ]_vars

\* C4 witness: a reply to an outstanding prompt has just been saved.
C4_Witness ==
    /\ handled.branch = "activity"
    /\ handled.calls[1].ok
    /\ SavedCount(handled.user) >= 1

\* C5: the flag is down as soon as handle_message has taken a reply, and no
\* user has more saved activities than inquiries sent to them.
C5_AtMostOneActivityPerInquiry ==
    /\ handled.branch = "activity" => ~user_poll_state[handled.user]
    /\ \A u \in UserIds : SavedCount(u) <= inquiries[u]

\* C5 witness: after the reply to a user's only inquiry was saved, a further
\* message of that user has just been dropped as unexpected input.
C5_Witness ==
    /\ handled.branch = "unexpected"
    /\ inquiries[handled.user] = 1
    /\ SavedCount(handled.user) = 1

\* C6: for every user and date, the dispatch job delivers at most once (the
\* report document or the 'no records' notice), however often it is run.
C6_AtMostOneDeliveryPerDate ==
    \A u \in UserIds, d \in Dates : delivered[u][d] + notices[u][d] <= 1

\* C7: the watermark of a user is a date only if the report of that date
\* was delivered to the user.
C7_WatermarkOnlyAfterDelivery ==
    \A u \in UserIds :
        Watermark(u) # NoDate =>
            delivered[u][Watermark(u)] + notices[u][Watermark(u)] >= 1

\* The job is about to send to u, and the local date it read for u is the
\* second day after the target date of u's last failed delivery: the next
\* matching report hour, on the following day.
RetryDay(u) ==
    /\ report.pc = "sending"
    /\ CurrentReportUser = u
    /\ failed[u] # NoDate
    /\ Date(report.local_time) = failed[u] + 2

\* C8 as stated: after a failed delivery for date D, the job's attempt at
\* the next matching report hour, on the following day, is for D again.
C8_NextDayRetriesSameDate ==
    \A u \in UserIds : RetryDay(u) => report.date = failed[u]

\* C8 amended: that attempt is for the day after D, the previous local day
\* of the run; D is not attempted by it.
C8_NextDayTargetsNextDate ==
    \A u \in UserIds : RetryDay(u) => report.date = failed[u] + 1

\* C8 witness: such an attempt, a day after a failed delivery.
C8_Witness ==
    \E u \in UserIds : RetryDay(u) /\ report.date = failed[u] + 1

\* C9: a message of a user who requested the edit of activity A makes
\* exactly one store call, update_activity_description(A, user, text), and
\* leaves the user idle, with no expectation of any kind pending.
C9_EditReplyOneUpdateThenIdle ==
    [][ \A u \in UserIds, text \in Texts :
          (Editing(u) /\ handle_message(u, text)) =>
              /\ Len(handled'.calls) = 1
              /\ handled'.calls[1].fn = "update_activity_description"
              /\ handled'.calls[1].activity_id = user_data[u].editing_activity_id
              /\ handled'.calls[1].user_id = u
              /\ handled'.calls[1].text = text
              /\ ~user_data'[u].is_editing_activity
              /\ ~user_poll_state'[u]
      ]_vars

\* C10: /start leaves the user idle: no outstanding prompt and no pending
\* edit, so the next message is unexpected input.
C10_StartForcesIdle ==
    [][ \A u \in UserIds :
          start(u) => (~user_data'[u].is_editing_activity /\ ~user_poll_state'[u])
      ]_vars

\* A step in which task t decides to send to its current user: the loop
\* body has passed the window test and the flag test and reached the send.
DecidesToSend(t) == ask[t].pc # "sending" /\ ask'[t].pc = "sending"

\* C11: ask_activity decides to send an inquiry to a user only when the user
\* is idle; a user with a pending edit is not prompted.
C11_PromptOnlyWhenIdle ==
    [][ \A t \in TaskNames :
          DecidesToSend(t) => ~Editing(ask'[t].user_ids[ask'[t].i])
      ]_vars

C13_ReportFailureDoesNotAbortSweep ==
    [][ /\ ReportSendFail =>
              /\ report'.pc = "sleep"
              /\ report'.user_ids = report.user_ids
              /\ report'.i = report.i
        /\ (report.pc = "sleep" /\ report'.pc # "sleep") =>
              LET last == IF report'.pc = "idle" THEN Len(report.user_ids)
                          ELSE report'.i - 1
              IN  /\ \A k \in (report.i + 1) .. last :
                        ~ReportDue(report.user_ids[k], report.now_utc)
                  /\ report'.pc # "idle" =>
                        /\ report'.pc = "sending"
                        /\ report'.user_ids = report.user_ids
                        /\ report'.i > report.i
                        /\ ReportDue(report.user_ids[report'.i], report.now_utc)
      ]_vars

\* C13 witness: the delivery to a user has just failed (nothing was delivered
\* to the user for the date of this run) and a later user of the list is due.
C13_Witness ==
    /\ report.pc = "sleep"
    /\ failed[CurrentReportUser] = report.date
    /\ delivered[CurrentReportUser][report.date] + notices[CurrentReportUser][report.date] = 0
    /\ report.i < Len(report.user_ids)
    /\ ReportDue(report.user_ids[report.i + 1], report.now_utc)

\* The rows a delivered report was built from.
ReportInput == activities_list(report_out.user, report_out.date)

\* The positions of a sequence of rows whose description differs from the
\* description of the row before.
Changes(acts) == {k \in 2..Len(acts) : acts[k].description # acts[k - 1].description}

\* C14: the merge never joins two runs of one description that a different
\* description separates: every delivered report document has one block more
\* than its rows have positions whose description differs from the row
\* before, and one line per block.
C14_BlocksCountValueChanges ==
    report_out.kind = "document" =>
        /\ Len(report_out.blocks) = 1 + Cardinality(Changes(ReportInput))
        /\ Len(report_out.lines) = Len(report_out.blocks)

\* a document for the descriptions A, B, A: three blocks
C14_Witness ==
    /\ report_out.kind = "document"
    /\ Len(ReportInput) = 3
    /\ ReportInput[1].description = ReportInput[3].description
    /\ ReportInput[1].description # ReportInput[2].description
    /\ Len(report_out.blocks) = 3

\* The n-th position, in ascending order, at which the description changes.
NthChange(acts, n) ==
    CHOOSE j \in Changes(acts) : Cardinality({i \in Changes(acts) : i <= j}) = n

\* C15: the blocks of a delivered document are contiguous and ascending in
\* the user's local time: the first block starts at the first row's time,
\* every closed block ends at the time of the next row with a different
\* description, which is where the following block starts, and only the
\* last block has no end.  The lines of the document carry the time of day
\* of these moments.
C15_BlocksContiguousAscending ==
    report_out.kind = "document" =>
        LET acts == ReportInput
            b == report_out.blocks
            local(k) == GetUserLocalTime(report_out.user, acts[k].timestamp)
        IN  /\ Len(b) >= 1
            /\ b[1].start = local(1)
            /\ b[1].description = acts[1].description
            /\ b[Len(b)].end = NoEnd
            /\ \A k \in 1..(Len(b) - 1) :
                  /\ b[k].end # NoEnd
                  /\ b[k].end = local(NthChange(acts, k))
                  /\ b[k + 1].start = b[k].end
                  /\ b[k + 1].description = acts[NthChange(acts, k)].description
                  /\ b[k].start <= b[k + 1].start
            /\ \A k \in 1..Len(b) :
                  /\ report_out.lines[k].start = Hour(b[k].start)
                  /\ report_out.lines[k].description = b[k].description
                  /\ report_out.lines[k].end =
                        IF k = Len(b) THEN NoEnd ELSE Hour(b[k + 1].start)

\* a document of two blocks whose first block spans two rows and ends later
\* than it starts
C15_Witness ==
    /\ report_out.kind = "document"
    /\ Len(ReportInput) = 3
    /\ Len(report_out.blocks) = 2
    /\ ReportInput[1].description = ReportInput[2].description
    /\ report_out.blocks[1].start < report_out.blocks[1].end

\* C16: a document built from a single row (t, v) has exactly one block; it
\* starts at the local time of t, carries v and has no end.
C16_SingleSampleOneOpenBlock ==
    (report_out.kind = "document" /\ Len(ReportInput) = 1) =>
        /\ report_out.blocks =
              <<[start |-> GetUserLocalTime(report_out.user, ReportInput[1].timestamp),
                 end |-> NoEnd,
                 description |-> ReportInput[1].description]>>
        /\ report_out.lines =
              <<[start |-> Hour(GetUserLocalTime(report_out.user, ReportInput[1].timestamp)),
                 end |-> NoEnd,
                 description |-> ReportInput[1].description]>>

\* a document delivered for a day with one row
C16_Witness ==
    /\ report_out.kind = "document"
    /\ Len(ReportInput) = 1
    /\ Len(report_out.blocks) = 1

\* C17: a day without rows yields no block and no document, only the 'no
\* records' message, on demand (Download button, editable list) and in the
\* scheduled job; a document or a list is delivered only for a day with rows.
C17_EmptyDayOnlyNotice ==
    report_out.kind # "none" =>
        /\ ReportInput = <<>> <=> report_out.kind = "notice"
        /\ report_out.kind = "notice" => report_out.blocks = <<>> /\ report_out.lines = <<>>
        /\ report_out.kind = "document" => Len(report_out.blocks) >= 1
        /\ report_out.kind = "listing" => Len(report_out.lines) = Len(ReportInput)

\* the 'no records' message delivered on demand for a user and date for
\* which the scheduled job delivered it as well
C17_Witness ==
    /\ report_out.kind = "notice"
    /\ report_out.times = 2
    /\ report_out.date \in Dates
    /\ notices[report_out.user][report_out.date] > 0
    /\ ReportInput = <<>>

RowsOfLocalDate(user_id, date) ==
    {k \in 1..Len(activities) :
        /\ activities[k].user_id = user_id
        /\ Date(GetUserLocalTime(user_id, activities[k].timestamp)) = date}

\* C19: the daily report the job sends for the day before the user's local
\* today is computed over exactly the user's rows whose local date is that
\* day.
C19_ReportCoversLocalDate ==
    report.pc = "sending" =>
        get_activities_for_day(CurrentReportUser, report.date)
            = RowsOfLocalDate(CurrentReportUser, report.date)

\* The window that applies to a user: the stored hours when they form a
\* window within 0..23, else the default hours.
EffectiveWindow(u) ==
    IF /\ users[u].poll_start_hour \in 0..23
       /\ users[u].poll_end_hour \in 0..23
       /\ users[u].poll_start_hour < users[u].poll_end_hour
    THEN <<users[u].poll_start_hour, users[u].poll_end_hour>>
    ELSE <<DEFAULT_POLL_START_HOUR, DEFAULT_POLL_END_HOUR>>

\* The user's local hour lies in the user's window, both ends included.
HourInWindow(u, now_utc) ==
    /\ EffectiveWindow(u)[1] <= Hour(GetUserLocalTime(u, now_utc))
    /\ Hour(GetUserLocalTime(u, now_utc)) <= EffectiveWindow(u)[2]

\* Poll task t takes up the next user of its list.
TakesUpUser(t) ==
    /\ ask'[t].pc # "idle"
    /\ ask[t].pc = "idle" \/ ask'[t].i # ask[t].i

\* C20: a poll run sends to a user only if the user's local hour at the start
\* of the run lies within the user's window, both boundary hours included,
\* the window being 8..22 when the stored hours are no window; a user outside
\* the window is passed over with no message and no change of the user's
\* state, and a user inside whose flag is down is sent the inquiry.
C20_PollOnlyInsideWindow ==
    [][ \A t \in TaskNames :
          /\ DecidesToSend(t) =>
                HourInWindow(ask'[t].user_ids[ask'[t].i], ask'[t].now_utc)
          /\ TakesUpUser(t) =>
                LET u == ask'[t].user_ids[ask'[t].i]
                IN  IF HourInWindow(u, ask'[t].now_utc)
                    THEN ~user_poll_state[u] => ask'[t].pc = "sending"
                    ELSE /\ ask'[t].pc = "sleep"
                         /\ user_poll_state'[u] = user_poll_state[u]
                         /\ inquiries'[u] = inquiries[u]
                         /\ user_data'[u] = user_data[u]
                         /\ users'[u] = users[u] ]_vars

\* a run that passed over user 1, whose hour is outside the window the user
\* set, and sends to user 2, whose stored hours are no window, at hour 22
C20_Witness ==
    \E t \in TaskNames :
        /\ ask[t].pc = "sending"
        /\ ask[t].i = 2
        /\ ~HourInWindow(ask[t].user_ids[1], ask[t].now_utc)
        /\ inquiries[ask[t].user_ids[1]] = 0
        /\ <<users[ask[t].user_ids[2]].poll_start_hour,
              users[ask[t].user_ids[2]].poll_end_hour>> # EffectiveWindow(ask[t].user_ids[2])
        /\ Hour(GetUserLocalTime(ask[t].user_ids[2], ask[t].now_utc)) = DEFAULT_POLL_END_HOUR

\* C21 as stated: when a run of ask_activity ends, the prompt is marked
\* outstanding for every user the run has sent an inquiry to.
C21_PromptOutstandingAtEndOfRun ==
    [][ \A t \in TaskNames :
          (ask[t].pc # "idle" /\ ask'[t].pc = "idle") =>
              \A u \in ask[t].sent : user_poll_state'[u] ]_vars

\* C21: a run that takes up a user inside the window whose flag is down goes
\* on to send; a send that returns is the run's only inquiry to that user,
\* counts one inquiry for that user alone and leaves the user's flag up; no
\* inquiry is counted otherwise; and a flag that is up goes down only when
\* handle_message consumes the user's reply or a send to the user fails.
C21_InquirySentOnceAndMarked ==
    [][ /\ \A t \in TaskNames :
              /\ TakesUpUser(t) =>
                    LET u == ask'[t].user_ids[ask'[t].i]
                    IN  (HourInWindow(u, ask'[t].now_utc) /\ ~user_poll_state[u])
                            => ask'[t].pc = "sending"
              /\ AskSendOk(t) =>
                    LET u == ask[t].user_ids[ask[t].i]
                    IN  /\ u \notin ask[t].sent
                        /\ ask'[t].sent = ask[t].sent \cup {u}
                        /\ user_poll_state'[u]
                        /\ inquiries' = [inquiries EXCEPT ![u] = @ + 1]
        /\ inquiries' # inquiries => \E t \in TaskNames : AskSendOk(t)
        /\ \A u \in UserIds :
              (user_poll_state[u] /\ ~user_poll_state'[u]) =>
                  \/ handled'.branch = "activity" /\ handled'.user = u
                  \/ \E t \in TaskNames : AskSendFail(t) /\ CurrentAskUser(t) = u ]_vars

\* a run has just sent its inquiry to a user who was idle, and the flag is up
C21_Witness ==
    \E t \in TaskNames :
        /\ ask[t].pc = "sleep"
        /\ CurrentAskUser(t) \in ask[t].sent
        /\ user_poll_state[CurrentAskUser(t)]
        /\ inquiries[CurrentAskUser(t)] = 1
        /\ ~Editing(CurrentAskUser(t))

\* The report hour that applies to a user: the stored hour when it is within
\* 0..23, else the default hour.
EffectiveReportHour(u) ==
    IF users[u].report_time_hour \in 0..23
    THEN users[u].report_time_hour ELSE DEFAULT_REPORT_HOUR

\* The user's local hour in a job run that started at now_utc is not the
\* user's report hour.
OffHour(u, now_utc) == Hour(GetUserLocalTime(u, now_utc)) # EffectiveReportHour(u)

\* The dispatch job takes up a user: it starts to send to a user it was not
\* sending to before.
ReportTakesUp ==
    /\ report'.pc = "sending"
    /\ report.pc # "sending"

\* C22: the dispatch job does nothing for a user whose local hour differs from
\* the user's report hour: it takes up only users whose hour matches, and
\* only for the user it has taken up does it deliver a report or a notice,
\* record a failure or write the watermark.
C22_OffHourUserUntouched ==
    [][ /\ ReportTakesUp =>
              /\ ~OffHour(report'.user_ids[report'.i], report'.now_utc)
              /\ report'.local_time
                    = GetUserLocalTime(report'.user_ids[report'.i], report'.now_utc)
        /\ \A u \in UserIds :
              (\/ Watermark(u)' # Watermark(u)
               \/ delivered'[u] # delivered[u]
               \/ notices'[u] # notices[u]
               \/ failed'[u] # failed[u]
               \/ report_out'.kind # "none" /\ report_out'.user = u) =>
                  /\ report.pc = "sending"
                  /\ CurrentReportUser = u
        /\ (report.pc = "sending" /\ report'.pc = "sending") => report' = report ]_vars

\* the job has passed user 1, whose local hour is not the report hour, left
\* that user untouched and sends to user 2
C22_Witness ==
    /\ report.pc = "sending"
    /\ report.i = 2
    /\ OffHour(report.user_ids[1], report.now_utc)
    /\ Watermark(report.user_ids[1]) = NoDate
    /\ \A d \in Dates : delivered[report.user_ids[1]][d] + notices[report.user_ids[1]][d] = 0

\* C23: when save_activity_to_db returns no id for a reply, handle_message
\* has still taken the user's flag down, the activities table is as before,
\* the user is not left editing, and the reply says that saving failed.
C23_SaveFailureClearsAndReports ==
    [][ (handled'.branch = "activity" /\ ~handled'.calls[1].ok) =>
            /\ user_poll_state[handled'.user]
            /\ ~user_poll_state'[handled'.user]
            /\ ~user_data'[handled'.user].is_editing_activity
            /\ activities' = activities
            /\ handled'.reply = "save_error" ]_vars

\* the reply to an outstanding prompt was not saved although the table has
\* room: the store failed
C23_Witness ==
    /\ handled.branch = "activity"
    /\ ~handled.calls[1].ok
    /\ Len(activities) < MaxActivities
    /\ ~user_poll_state[handled.user]
    /\ handled.reply = "save_error"

\* The arguments of /set_poll_window that the command must reject.
InvalidPollWindows ==
    {w \in PollWindowInputs :
        w[1] \notin 0..23 \/ w[2] \notin 0..23 \/ w[1] >= w[2]}

\* The arguments of /set_report_time that the command must reject.
InvalidReportHours == {h \in ReportHourInputs : h \notin 0..23}

\* C24: a settings command with an invalid argument writes nothing: after
\* /set_poll_window with an hour outside 0..23 or with start >= end, and after
\* /set_report_time with an hour outside 0..23, the users table and every
\* other part of the state are as before; and whatever the commands store is
\* a window with 0 <= start < end <= 23 or an hour within 0..23.
C24_InvalidSettingsStoreNothing ==
    [][ /\ \A u \in UserIds :
              /\ \A w \in InvalidPollWindows :
                    set_poll_window_handler(u, w[1], w[2]) =>
                        UNCHANGED <<users, activities, convVars, reportVars>>
              /\ \A h \in InvalidReportHours :
                    set_report_time_handler(u, h) =>
                        UNCHANGED <<users, activities, convVars, reportVars>>
        /\ \A u \in UserIds :
              /\ <<users'[u].poll_start_hour, users'[u].poll_end_hour>>
                     # <<users[u].poll_start_hour, users[u].poll_end_hour>>
                  => /\ 0 <= users'[u].poll_start_hour
                     /\ users'[u].poll_start_hour < users'[u].poll_end_hour
                     /\ users'[u].poll_end_hour <= 23
              /\ users'[u].report_time_hour # users[u].report_time_hour
                  => users'[u].report_time_hour \in 0..23 ]_vars

\* both valid commands have been stored for a user, so the commands do write;
\* the invalid inputs offered are a reversed window, an hour 24 in a window
\* and a report hour 24
C24_Witness ==
    /\ \E u \in UserIds :
          /\ <<users[u].poll_start_hour, users[u].poll_end_hour>> = <<9, 18>>
          /\ users[u].report_time_hour = DEFAULT_REPORT_HOUR + 1
    /\ <<18, 9>> \in InvalidPollWindows
    /\ <<7, 24>> \in InvalidPollWindows
    /\ 24 \in InvalidReportHours

\* C25: a text message of a user who has no pending edit and no outstanding
\* prompt is unexpected input: handle_message makes no store call, sends no
\* reply, and leaves both tables, the flags of all users, their edit
\* contexts and the poll tasks unchanged.
C25_IdleMessageChangesNothing ==
    [][ \A u \in UserIds :
          (/\ ~user_data[u].is_editing_activity
           /\ ~user_poll_state[u]
           /\ \E text \in Texts : handle_message(u, text)) =>
              /\ handled' = [user |-> u, branch |-> "unexpected", calls |-> <<>>,
                             reply |-> "none"]
              /\ UNCHANGED <<users, activities, user_poll_state, user_data, ask>> ]_vars

\* an idle user's message has been dropped while the other user has an
\* outstanding prompt
C25_Witness ==
    /\ handled.branch = "unexpected"
    /\ \E v \in UserIds \ {handled.user} : user_poll_state[v]
    /\ ~user_poll_state[handled.user]
    /\ ~Editing(handled.user)

\* C26: a message of a user with a pending edit is taken by the edit branch
\* alone, also when a prompt is outstanding for that user: the only store
\* call is the update of the description, no row is added to the activities
\* table, and the prompt stays outstanding.
C26_EditReplyNeverSavedAsActivity ==
    [][ \A u \in UserIds :
          (user_data[u].is_editing_activity /\ \E text \in Texts : handle_message(u, text)) =>
              /\ handled'.branch = "edit"
              /\ handled'.user = u
              /\ \A k \in 1..Len(handled'.calls) :
                    handled'.calls[k].fn = "update_activity_description"
              /\ Len(activities') = Len(activities)
              /\ \A k \in 1..Len(activities) :
                    activities'[k] = [activities[k] EXCEPT !.description = activities'[k].description]
              /\ user_poll_state' = user_poll_state ]_vars

\* the edit branch has updated a row for a user whose prompt is outstanding
C26_Witness ==
    /\ handled.branch = "edit"
    /\ Len(handled.calls) = 1
    /\ handled.calls[1].ok
    /\ user_poll_state[handled.user]
    /\ ~Editing(handled.user)

\* The tags a scan for '#<word>' finds in a text.
Hashtags(text) == IF text = "#focus #Unknown" THEN {"focus", "Unknown"} ELSE {}

\* C27: when a reply with hashtags has been saved, every tag of the reply
\* that is registered for the user is linked to the new activity and every
\* other tag of the reply is reported as ignored.
C27_TagsLinkedOrReportedIgnored ==
    (handled.branch = "activity" /\ handled.calls[1].ok) =>
        LET u == handled.user
            text == handled.calls[1].text
        IN  /\ TagLinksWritten(u, text) = Hashtags(text) \cap RegisteredTags(u)
            /\ IgnoredTagsReported(u, text) = Hashtags(text) \ RegisteredTags(u)

\* The user has no zone: the stored name is NULL or empty.
NoZone(u) == users[u].timezone = ""

\* C28: the poll sweep and the dispatch sweep never act on a user without a
\* zone: the lists the sweeps work on hold only users with a zone, and a step
\* that starts with a user without a zone sends that user no inquiry and no
\* report and leaves the user's flag and watermark as they are.
C28_SweepsSkipUsersWithoutZone ==
    [][ /\ \A t \in TaskNames : \A k \in 1..Len(ask'[t].user_ids) :
              users'[ask'[t].user_ids[k]].timezone # ""
        /\ \A k \in 1..Len(report'.user_ids) : users'[report'.user_ids[k]].timezone # ""
        /\ \A u \in UserIds :
              NoZone(u) =>
                  /\ inquiries'[u] = inquiries[u]
                  /\ user_poll_state'[u] = user_poll_state[u]
                  /\ Watermark(u)' = Watermark(u)
                  /\ delivered'[u] = delivered[u]
                  /\ notices'[u] = notices[u]
                  /\ failed'[u] = failed[u]
                  /\ report_out'.user # u ]_vars

\* both sweeps have served user 2 while user 1, who has no zone, was sent
\* nothing
C28_Witness ==
    /\ NoZone(1)
    /\ inquiries[2] >= 1
    /\ inquiries[1] = 0
    /\ report.pc = "sleep"
    /\ report.user_ids = <<2>>
    /\ Watermark(2) # NoDate
    /\ Watermark(1) = NoDate

\* The user's stored zone is missing or is not a name of the tz database.
FallsBackToUTC(u) == users[u].timezone \notin KnownZones

\* C29: for a user whose stored zone is missing or invalid the local time is
\* the UTC instant itself, so the sweeps decide on the UTC hour: the poll
\* sends to such a user exactly when the UTC hour lies in the user's window,
\* the dispatch job takes such a user up only at the UTC hour that is the
\* report hour, with the UTC date before as target, and does not pass over
\* such a user who is due by UTC time; for a user with a zone the job works
\* on the instant expressed in that zone.
C29_UnknownZoneDecidesOnUTC ==
    [][ /\ \A t \in TaskNames :
              (TakesUpUser(t) /\ FallsBackToUTC(ask'[t].user_ids[ask'[t].i])) =>
                  LET u == ask'[t].user_ids[ask'[t].i]
                      h == Hour(ask'[t].now_utc)
                  IN  IF EffectiveWindow(u)[1] <= h /\ h <= EffectiveWindow(u)[2]
                      THEN ~user_poll_state[u] => ask'[t].pc = "sending"
                      ELSE ask'[t].pc = "sleep"
        /\ ReportTakesUp =>
              LET u == report'.user_ids[report'.i]
              IN  IF FallsBackToUTC(u)
                  THEN /\ report'.local_time = report'.now_utc
                       /\ Hour(report'.now_utc) = EffectiveReportHour(u)
                       /\ report'.date = Date(report'.now_utc) - 1
                  ELSE report'.local_time = report'.now_utc + ZoneOffset(users[u].timezone)
        /\ (report.pc = "idle" /\ report'.pc # "idle") =>
              \A k \in 1..Len(report'.user_ids) :
                  LET u == report'.user_ids[k]
                  IN  (/\ FallsBackToUTC(u)
                       /\ Hour(report'.now_utc) = EffectiveReportHour(u)
                       /\ Watermark(u) # Date(report'.now_utc) - 1)
                          => report'.i <= k ]_vars

\* the dispatch job sends the report of the UTC day before to a user whose
\* stored zone name is unknown, and the poll has sent that user an inquiry
C29_Witness ==
    /\ report.pc = "sending"
    /\ users[CurrentReportUser].timezone = "Mars/Phobos"
    /\ report.local_time = report.now_utc
    /\ report.date = Date(report.now_utc) - 1
    /\ inquiries[CurrentReportUser] >= 1

\* C30: a user's watermark never moves backward: every write of
\* last_daily_report_sent_date stores a date that is not before the date
\* stored so far.
C30_WatermarkNeverMovesBack ==
    [][ \A u \in UserIds : Watermark(u)' >= Watermark(u) ]_vars

\* An inquiry has reached the user and no reply to it has been recorded: the
\* send of it has returned, or ask_activity is still suspended in that send.
PromptDelivered(u) ==
    \/ unanswered[u] >= 1
    \/ \E t \in TaskNames : ask[t].pc = "delivered" /\ CurrentAskUser(t) = u

\* C31: a free-text message of a user who is not editing and to whom an
\* inquiry has been delivered is taken as the reply to it (handle_message
\* takes the activity branch), also while ask_activity is still suspended in
\* the send of that inquiry; it is never dropped as unexpected input.
C31_ReplyToDeliveredPromptRecorded ==
    [][ \A u \in UserIds :
            (/\ handled'.user = u
             /\ ~user_data[u].is_editing_activity
             /\ PromptDelivered(u)) => handled'.branch = "activity" ]_vars

\* C32: when handle_message has consumed a user's prompt, the next time a run
\* of ask_activity reaches that user with the user's local hour inside the
\* poll window, the run goes on to send a new inquiry: the flag does not
\* block a user who has answered.
C32_PromptingResumesAfterReply ==
    [][ \A t \in TaskNames :
            TakesUpUser(t) =>
                LET u == ask'[t].user_ids[ask'[t].i]
                IN  (answered[u] /\ HourInWindow(u, ask'[t].now_utc))
                        => ask'[t].pc = "sending" ]_vars

\* C33: after the user has pressed Cancel on the editable list, no edit
\* expectation is pending for that user (so the user's next message is not
\* applied as a new description).
C33_CancelEndsEditing ==
    report_out.kind = "closed" => ~user_data[report_out.user].is_editing_activity

\* The rows of the table that a step has changed.
ChangedRows == {k \in 1..Len(activities) : activities'[k] # activities[k]}

\* C34: a message handled in the edit branch of handle_message ends the edit
\* expectation of its sender and changes at most the description of one
\* activity; it adds no row, leaves the outstanding-prompt flag and the
\* user_data of every other user as they were, and writes nothing to the
\* users table (the watermark included).
C34_EditBranchTouchesOnlyTheEdit ==
    [][ handled'.branch = "edit" =>
            /\ Len(activities') = Len(activities)
            /\ Cardinality(ChangedRows) <= 1
            /\ \A k \in ChangedRows :
                    activities'[k] = [activities[k] EXCEPT !.description = activities'[k].description]
            /\ user_poll_state' = user_poll_state
            /\ users' = users
            /\ user_data' = [user_data EXCEPT ![handled'.user] = NoUserData]
            /\ ask' = ask
            /\ inquiries' = inquiries ]_vars

\* user 2, with two rows in the table and a prompt outstanding, has just had
\* the description of one row replaced by an edit reply
C34_Witness ==
    /\ handled.branch = "edit"
    /\ handled.reply = "updated"
    /\ user_poll_state[handled.user]
    /\ SavedCount(handled.user) = 2
    /\ handled.calls[1].text = "#focus #Unknown"
    /\ \A k \in 1..Len(activities) :
          activities[k].description =
              IF k = handled.calls[1].activity_id THEN "#focus #Unknown" ELSE "a"

\* The rows with the given id that belong to somebody else.
OwnedByAnother(activity_id, u) ==
    {k \in 1..Len(activities) :
        activities[k].activity_id = activity_id /\ activities[k].user_id # u}

\* C35: a row's description changes only in a step that handles an edit
\* reply of the row's owner; an edit whose target is a row of another user
\* changes no row and is answered with the failure text; and no step changes
\* the id, the owner or the timestamp of a row or removes a row.
C35_EditsStayWithTheOwner ==
    [][ /\ Len(activities') >= Len(activities)
        /\ \A k \in 1..Len(activities) :
              /\ activities'[k].activity_id = activities[k].activity_id
              /\ activities'[k].user_id = activities[k].user_id
              /\ activities'[k].timestamp = activities[k].timestamp
              /\ activities'[k].description # activities[k].description =>
                    /\ handled'.branch = "edit"
                    /\ handled'.user = activities[k].user_id
        /\ (/\ handled'.branch = "edit"
            /\ user_data[handled'.user].editing_activity_id # NoId
            /\ OwnedByAnother(user_data[handled'.user].editing_activity_id, handled'.user) # {})
              => /\ activities' = activities
                 /\ handled'.reply = "update_failed" ]_vars

\* user 1 has just been told that the edit of a row of user 2 failed, and the
\* row has kept its description
C35_Witness ==
    /\ handled.branch = "edit"
    /\ handled.user = 1
    /\ handled.reply = "update_failed"
    /\ activities[handled.calls[1].activity_id].user_id = 2
    /\ activities[handled.calls[1].activity_id].description # handled.calls[1].text

\* C36: when the job has taken up a user for a target date without rows, the
\* only message of that step is the 'no records' notice, no document is
\* counted, and the watermark becomes the target date; no invocation takes up
\* a user for a date whose notice the job has sent, so within the matching
\* hour the notice for a date is sent at most once.
C36_EmptyDateNoticeAndWatermark ==
    [][ /\ (report.pc = "sending" /\ report'.pc # "sending" /\ report.rows = 0) =>
              /\ Watermark(CurrentReportUser)' = report.date
              /\ delivered' = delivered
              /\ report_out'.kind \in {"notice", "none"}
              /\ report_out'.kind = "notice" =>
                    /\ report_out'.user = CurrentReportUser
                    /\ report_out'.date = report.date
                    /\ notices'[CurrentReportUser][report.date] = 1
        /\ ReportTakesUp =>
              notices[report'.user_ids[report'.i]][report'.date] = 0
        /\ \A u \in UserIds, d \in Dates : notices'[u][d] <= 1 ]_vars

\* the second invocation within the hour has ended without a message: the
\* first one sent the notice for the empty target date and set the watermark
C36_Witness ==
    /\ job_runs = 2
    /\ report.pc = "idle"
    /\ report_out.kind = "none"
    /\ \E d \in Dates :
          /\ notices[SampleUser][d] = 1
          /\ Watermark(SampleUser) = d
          /\ get_activities_for_day(SampleUser, d) = {}
          /\ Len(activities) > 0

\* The step delivered a report, a notice or a list on demand: a message went
\* out and the dispatch job did not move.
OnDemandStep == report_out'.kind \in {"document", "notice", "listing"} /\ report' = report

\* C37: a report delivered on demand (the list of /report and of the date
\* buttons, the file of the Download button) leaves the users table, with
\* the watermark, the user_data and the outstanding-prompt flags as they
\* were, and counts as no delivery of the job; and a run of the job takes up
\* the first user whose local hour is the report hour and whose watermark is
\* not the target date, whatever was delivered on demand before.
C37_OnDemandReportChangesNoState ==
    [][ /\ OnDemandStep =>
              /\ users' = users
              /\ user_data' = user_data
              /\ user_poll_state' = user_poll_state
              /\ delivered' = delivered
              /\ notices' = notices
              /\ activities' = activities
        /\ (report.pc = "idle" /\ job_runs' = job_runs + 1) =>
              \A k \in 1..Len(get_all_user_ids_with_tz) :
                  LET u == get_all_user_ids_with_tz[k]
                      local == GetUserLocalTime(u, now)
                  IN  (/\ Hour(local) = EffectiveReportHour(u)
                       /\ delivered[u][Date(local) - 1] = 0
                       /\ notices[u][Date(local) - 1] = 0
                       /\ failed[u] # Date(local) - 1)
                          => report'.pc = "sending" /\ report'.i <= k ]_vars

\* user 2, editing and with a prompt outstanding, has just received on demand
\* the report of the date for which the job is due, and the job is still due
C37_Witness ==
    /\ report.pc = "idle"
    /\ report_out.kind = "document"
    /\ report_out.user = 2
    /\ report_out.date = Date(GetUserLocalTime(2, now)) - 1
    /\ Hour(GetUserLocalTime(2, now)) = EffectiveReportHour(2)
    /\ Watermark(2) = NoDate
    /\ user_poll_state[2]
    /\ user_data[2].is_editing_activity

\* The stored poll hours of a user form a window within 0..23; the stored
\* report hour is an hour of the day.
StoredWindowValid(u) ==
    /\ 0 <= users[u].poll_start_hour
    /\ users[u].poll_start_hour < users[u].poll_end_hour
    /\ users[u].poll_end_hour <= 23

StoredReportHourValid(u) == 0 <= users[u].report_time_hour /\ users[u].report_time_hour <= 23

\* What the two getters give is the stored value when it is within the
\* bounds and the default otherwise.
GettersWithinBounds ==
    \A u \in UserIds :
        /\ get_user_poll_window(u) =
              IF StoredWindowValid(u)
              THEN <<users[u].poll_start_hour, users[u].poll_end_hour>>
              ELSE <<DEFAULT_POLL_START_HOUR, DEFAULT_POLL_END_HOUR>>
        /\ get_user_report_hour(u) =
              IF StoredReportHourValid(u)
              THEN users[u].report_time_hour ELSE DEFAULT_REPORT_HOUR

\* C38: a registration or a settings command leaves a row within the bounds
\* (0 <= start < end <= 23, report hour in 0..23) within the bounds, and every
\* value a command stores is within them; the getters give the stored value
\* when it is within the bounds and the defaults 8-22 and 8 otherwise, and
\* the sweeps decide by these: an inquiry goes out only inside that window
\* and the job takes up a user only at that report hour.
C38_StoredSettingsWithinBounds ==
    [][ /\ \A u \in UserIds :
              /\ StoredWindowValid(u) => StoredWindowValid(u)'
              /\ StoredReportHourValid(u) => StoredReportHourValid(u)'
              /\ <<users'[u].poll_start_hour, users'[u].poll_end_hour>>
                     # <<users[u].poll_start_hour, users[u].poll_end_hour>>
                    => StoredWindowValid(u)'
              /\ users'[u].report_time_hour # users[u].report_time_hour
                    => StoredReportHourValid(u)'
        /\ GettersWithinBounds
        /\ GettersWithinBounds'
        /\ \A t \in TaskNames :
              DecidesToSend(t) => HourInWindow(ask'[t].user_ids[ask'[t].i], ask'[t].now_utc)
        /\ ReportTakesUp =>
              Hour(report'.local_time) = EffectiveReportHour(report'.user_ids[report'.i]) ]_vars

\* the job has taken up user 1, whose stored report hour 24 is out of bounds,
\* at the default hour, while user 2 has replaced a stored pair that is no
\* window by a window
C38_Witness ==
    /\ report.pc = "sending"
    /\ CurrentReportUser = 1
    /\ users[1].report_time_hour = 24
    /\ Hour(report.local_time) = DEFAULT_REPORT_HOUR
    /\ <<users[2].poll_start_hour, users[2].poll_end_hour>> = <<9, 18>>
    /\ users[2].report_time_hour = NoHour

\* C39: a user has one pending edit target at most: an edit request that
\* arrives while another target is pending puts its own id in the place of
\* that target (or, when the request fails, leaves no target), and the
\* message handled next in the edit branch makes one update call at most,
\* for the pending target, changes no row with another id and leaves the
\* user with no pending edit.
C39_SecondRequestReplacesTarget ==
    [][ /\ \A u \in UserIds, id \in EditIds :
              (/\ button_edit_activity(u, id)
               /\ user_data[u].is_editing_activity
               /\ user_data[u].editing_activity_id # id)
                  => \/ user_data'[u] = [is_editing_activity |-> TRUE,
                                          editing_activity_id |-> id]
                     \/ user_data'[u] = NoUserData
        /\ handled'.branch = "edit" =>
              LET target == user_data[handled'.user].editing_activity_id
              IN  /\ Len(handled'.calls) <= 1
                  /\ \A c \in 1..Len(handled'.calls) :
                        handled'.calls[c].activity_id = target
                  /\ \A k \in ChangedRows : activities[k].activity_id = target
                  /\ user_data'[handled'.user] = NoUserData ]_vars

\* user 2, owner of rows 1 and 2, has had row 2 rewritten by an edit reply
\* while row 1 kept its description, and is no longer editing
C39_Witness ==
    /\ handled.branch = "edit"
    /\ handled.user = 2
    /\ handled.reply = "updated"
    /\ handled.calls[1].activity_id = 2
    /\ Len(activities) = 2
    /\ activities[1].user_id = 2 /\ activities[2].user_id = 2
    /\ activities[1].description = "a"
    /\ activities[2].description = "#focus #Unknown"
    /\ handled.calls[1].text = "#focus #Unknown"
    /\ ~user_data[2].is_editing_activity
====
